---- MODULE Spec2Model ----
(***************************************************************************)
(* A model of cipher.py: the alphabet codec, the cipher classes, their     *)
(* per-instance mutable state (the random generator, the feedback value)   *)
(* and the composition of ciphers.  The module is Python 2: map() and      *)
(* range() build lists at once, generator functions are lazy.  Modelled:   *)
(* Cipher, the substitution ciphers (Caesar, MapSubstitution with a        *)
(* generated mapping, SkewedOneTimePad, SimpleFeedback, SquareFeedback),   *)
(* RotatingCipher, ColumnarCipher (width >= 1), ComposedCipher, Smasher,   *)
(* and GCDCipher._encode_ord.                                              *)
(*                                                                         *)
(* Values.  An element of a text or of an index sequence is a record       *)
(* [str, v]: a one-character string (v its character code) or an integer   *)
(* (v its value).  The outcome of a call is a record [exc, val, pend]:     *)
(* exc is the exception the call itself raised ("" for none), val the      *)
(* elements it returned or yielded, pend the exception a returned          *)
(* generator raises once val has been consumed ("" for none).              *)
(***************************************************************************)
EXTENDS Integers, Sequences, FiniteSets

VARIABLES
    heap,       \* instance id -> the cipher object (its fields)
    plaintext,  \* the argument of the latest call
    result,     \* the outcome of the latest call
    calls       \* the calls made so far, oldest first

vars == <<heap, plaintext, result, calls>>

(***************************************************************************)
(* Bounds of the model.                                                    *)
(***************************************************************************)
MaxLen == 2         \* longest text drawn for the substitution ciphers
MaxRot == 4         \* rotation amounts are drawn from -MaxRot..MaxRot
MaxOffset == 5      \* indices handed to chr are drawn from -MaxOffset..MaxOffset
RngMod == 7         \* number of states of the abstract random generator
MaxAlpha == 3       \* alphabets are the first 1..MaxAlpha letters of A..Z
MaxCalls == 2       \* calls made on one instance in one behaviour
MaxWidth == 3       \* widths of the ColumnarCipher are drawn from 1..MaxWidth
MaxDraw == 6        \* values of randrange modelled: those below MaxDraw

(***************************************************************************)
(* Values and outcomes.                                                    *)
(***************************************************************************)
IntVal(i) == [str |-> FALSE, v |-> i]
StrVal(c) == [str |-> TRUE, v |-> c]

Ok(val) == [exc |-> "", val |-> val, pend |-> ""]
Raise(e) == [exc |-> e, val |-> <<>>, pend |-> ""]
Yield(val, e) == [exc |-> "", val |-> val, pend |-> e]

SetMin(S) == CHOOSE x \in S : \A y \in S : x <= y

\* Python 2's map(f, iterable) given rs[i] = the outcome of f on the i-th
\* element and pend = what the iterable raises after its last element: the
\* first failure in iteration order is raised, else the list is returned.
MapOutcome(rs, pend) ==
    LET bad == {i \in DOMAIN rs : rs[i].exc # ""}
    IN  IF bad # {} THEN Raise(rs[SetMin(bad)].exc)
        ELSE IF pend # "" THEN Raise(pend)
        ELSE Ok([i \in DOMAIN rs |-> rs[i].val])

\* Python's a % n for n > 0: the result has the sign of n, so it is in
\* 0..n-1 also for a negative a.
PyMod(a, n) == a % n

\* Character codes (ASCII): 'A' is 65, 'a' is 97; 'X' is the filler of
\* ColumnarCipher and the placeholder of Smasher.
CodeX == 88

\* The default alphabet, 'ABCDEFGHIJKLMNOPQRSTUVWXYZ'.
DefaultAlphabet == [i \in 1..26 |-> 64 + i]

\* seq[i] for a Python list or string: a negative i counts from the end.
list_index(seq, i) ==
    IF 0 <= i /\ i < Len(seq) THEN Ok(seq[i + 1])
    ELSE IF -Len(seq) <= i /\ i < 0 THEN Ok(seq[Len(seq) + i + 1])
    ELSE Raise("IndexError")

(***************************************************************************)
(* Cipher: the alphabet codec.                                             *)
(***************************************************************************)
\* str.index: the first position of the character, 0-based.
str_index(alphabet, c) ==
    SetMin({i \in DOMAIN alphabet : alphabet[i] = c}) - 1

Cipher_ord(alphabet, char) ==
    IF char.str
    THEN IF \E i \in DOMAIN alphabet : alphabet[i] = char.v
         THEN Ok(IntVal(str_index(alphabet, char.v)))
         ELSE Raise("AlphabetError")
    ELSE Ok(char)

\* text is an outcome whose val (and pend) is the iterable handed to ords.
Cipher_ords(alphabet, text) ==
    MapOutcome([i \in DOMAIN text.val |-> Cipher_ord(alphabet, text.val[i])],
               text.pend)

\* alphabet[offset]: Python indexes a string from its end with a negative
\* offset, and refuses a string as the index.
Cipher_chr(alphabet, offset) ==
    IF offset.str THEN Raise("TypeError")
    ELSE LET c == list_index(alphabet, offset.v)
         IN  IF c.exc # "" THEN c ELSE Ok(StrVal(c.val))

Cipher_chrs(alphabet, offsets) ==
    MapOutcome([i \in DOMAIN offsets.val |-> Cipher_chr(alphabet, offsets.val[i])],
               offsets.pend)

(***************************************************************************)
(* random.Random, abstracted: a generator with RngMod states.  seed(a)     *)
(* sets the state from a alone, every draw reads the state and advances    *)
(* it; random() is state / RngMod.                                         *)
(***************************************************************************)
random_seed(a) == PyMod(3 * a + 1, RngMod)
random_advance(r) == PyMod(5 * r + 3, RngMod)

\* int(random.expovariate(lambd)) for lambd = skew / alpha_size, drawn in
\* state r: a non-negative integer that grows with the draw and with
\* alpha_size / skew (r / (RngMod - r) stands for -ln(1 - random())).
expovariate_int(r, skew, alpha_size) ==
    (r * alpha_size) \div ((RngMod - r) * skew)

\* random.shuffle(x) from state r: for i = len(x)-1 down to 1,
\* j = int(random() * (i+1)); x[i], x[j] = x[j], x[i].
RECURSIVE random_shuffle(_, _, _)
random_shuffle(x, i, r) ==
    IF i < 1 THEN [x |-> x, random |-> r]
    ELSE LET j == (r * (i + 1)) \div RngMod
             y == [x EXCEPT ![i + 1] = x[j + 1], ![j + 1] = x[i + 1]]
         IN  random_shuffle(y, i - 1, random_advance(r))

(***************************************************************************)
(* The cipher objects.  Every object carries every field; a class reads    *)
(* only its own.                                                           *)
(***************************************************************************)
\* Cipher.__init__: alphabet, seed, and a generator of its own seeded with
\* the seed.
Cipher_init(cls, alphabet, seed) ==
    [cls |-> cls, alphabet |-> alphabet, seed |-> seed,
     random |-> random_seed(seed),
     rot_by |-> 13, mapping |-> <<>>, skew |-> 1,
     init_rot_by |-> 13, increment |-> 1,
     has_feedback |-> FALSE, feedback |-> 0,
     children |-> <<>>, width |-> 3, column_order |-> <<0, 1, 2>>,
     pad |-> <<>>]

CaesarCipher(alphabet, seed, rot_by) ==
    [Cipher_init("CaesarCipher", alphabet, seed) EXCEPT !.rot_by = rot_by]

\* MapSubstitutionCipher without a mapping: random_mapping() shuffles
\* range(len(alphabet)) with the generator just seeded.
MapSubstitutionCipher(alphabet, seed) ==
    LET self == Cipher_init("MapSubstitutionCipher", alphabet, seed)
        n == Len(alphabet)
        sh == random_shuffle([i \in 1..n |-> i - 1], n - 1, self.random)
    IN  [self EXCEPT !.mapping = sh.x, !.random = sh.random]

SkewedOneTimePadCipher(alphabet, seed, skew) ==
    [Cipher_init("SkewedOneTimePadCipher", alphabet, seed) EXCEPT !.skew = skew]

SimpleFeedbackCipher(alphabet, seed, init_rot_by) ==
    [Cipher_init("SimpleFeedbackCipher", alphabet, seed)
        EXCEPT !.init_rot_by = init_rot_by]

SquareFeedbackCipher(alphabet, seed, init_rot_by) ==
    [Cipher_init("SquareFeedbackCipher", alphabet, seed)
        EXCEPT !.init_rot_by = init_rot_by]

RotatingCipher(alphabet, seed, init_rot_by, increment) ==
    [Cipher_init("RotatingCipher", alphabet, seed)
        EXCEPT !.init_rot_by = init_rot_by, !.increment = increment]

ComposedCipher(alphabet, seed, children) ==
    [Cipher_init("ComposedCipher", alphabet, seed) EXCEPT !.children = children]

ColumnarCipher(alphabet, seed, width, column_order) ==
    [Cipher_init("ColumnarCipher", alphabet, seed)
        EXCEPT !.width = width, !.column_order = column_order]

Smasher(alphabet, seed) == Cipher_init("Smasher", alphabet, seed)

\* Python values that are not ciphers, as operands of | : the classes object
\* and int, a string, an integer.  Only cls is read.
NonCipherKinds == {"class object", "class int", "str", "int"}
NonCipher(kind) == Cipher_init(kind, <<>>, 0)
IsCipherInstance(self) == self.cls \notin NonCipherKinds
IsClass(self) == self.cls \in {"class object", "class int"}

IsFeedback(self) == self.cls \in {"SimpleFeedbackCipher", "SquareFeedbackCipher"}

\* Cipher.reset, and SimpleFeedbackCipher.reset which extends it.
\* Mutation: reset sets the feedback value and leaves the generator as it is.
Cipher_reset_NoSeed(self) ==
    IF IsFeedback(self)
    THEN [self EXCEPT !.has_feedback = TRUE, !.feedback = self.init_rot_by]
    ELSE self

Cipher_reset(self) ==
    IF IsFeedback(self)
    THEN [self EXCEPT !.random = random_seed(self.seed),
                      !.has_feedback = TRUE, !.feedback = self.init_rot_by]
    ELSE [self EXCEPT !.random = random_seed(self.seed)]

(***************************************************************************)
(* The substitution ciphers: _encode_ord of each class.  The outcome val   *)
(* is the cipher index; self is the object after the call.                 *)
(***************************************************************************)
\* Mutation: the modulus is the default alphabet's size, not this alphabet's.
CaesarCipher_encode_ord_Mod26(self, plain_ord) ==
    [self |-> self, out |-> Ok(IntVal(PyMod(plain_ord.v + self.rot_by, 26)))]

CaesarCipher_encode_ord(self, plain_ord) ==
    IF Len(self.alphabet) = 0 THEN [self |-> self, out |-> Raise("ZeroDivisionError")]
    ELSE [self |-> self,
          out |-> Ok(IntVal(PyMod(plain_ord.v + self.rot_by, Len(self.alphabet))))]

MapSubstitutionCipher_encode_ord(self, plain_ord) ==
    LET m == list_index(self.mapping, plain_ord.v)
    IN  [self |-> self, out |-> IF m.exc # "" THEN m ELSE Ok(IntVal(m.val))]

SkewedOneTimePadCipher_encode_ord(self, plain_ord) ==
    LET alpha_size == Len(self.alphabet)
    IN  IF alpha_size = 0 THEN [self |-> self, out |-> Raise("ZeroDivisionError")]
        ELSE LET pad_value == expovariate_int(self.random, self.skew, alpha_size)
             IN  [self |-> [self EXCEPT !.random = random_advance(self.random)],
                  out |-> Ok(IntVal(PyMod(plain_ord.v + pad_value, alpha_size)))]

\* Mutation: the feedback value is not replaced by the output.
SimpleFeedbackCipher_encode_ord_NoFeed(self, plain_ord) ==
    [self |-> self,
     out |-> Ok(IntVal(PyMod(plain_ord.v + self.feedback, Len(self.alphabet))))]

SimpleFeedbackCipher_encode_ord(self, plain_ord) ==
    IF ~self.has_feedback THEN [self |-> self, out |-> Raise("AttributeError")]
    ELSE IF Len(self.alphabet) = 0
    THEN [self |-> self, out |-> Raise("ZeroDivisionError")]
    ELSE LET output == PyMod(plain_ord.v + self.feedback, Len(self.alphabet))
         IN  [self |-> [self EXCEPT !.feedback = output], out |-> Ok(IntVal(output))]

SquareFeedbackCipher_encode_ord(self, plain_ord) ==
    IF ~self.has_feedback THEN [self |-> self, out |-> Raise("AttributeError")]
    ELSE IF Len(self.alphabet) = 0
    THEN [self |-> self, out |-> Raise("ZeroDivisionError")]
    ELSE LET output == PyMod(plain_ord.v + self.feedback * self.feedback,
                             Len(self.alphabet))
         IN  [self |-> [self EXCEPT !.feedback = output], out |-> Ok(IntVal(output))]

encode_ord(self, plain_ord) ==
    CASE self.cls = "CaesarCipher" -> CaesarCipher_encode_ord(self, plain_ord)
      [] self.cls = "MapSubstitutionCipher" ->
            MapSubstitutionCipher_encode_ord(self, plain_ord)
      [] self.cls = "SkewedOneTimePadCipher" ->
            SkewedOneTimePadCipher_encode_ord(self, plain_ord)
      [] self.cls = "SimpleFeedbackCipher" ->
            SimpleFeedbackCipher_encode_ord(self, plain_ord)
      [] self.cls = "SquareFeedbackCipher" ->
            SquareFeedbackCipher_encode_ord(self, plain_ord)

IsSubstitution(self) ==
    self.cls \in {"CaesarCipher", "MapSubstitutionCipher", "SkewedOneTimePadCipher",
                  "SimpleFeedbackCipher", "SquareFeedbackCipher"}

\* SubstitutionCipher._encode_ords: map(self._encode_ord, plain_ords), the
\* elements in order, each call on the object the call before left; the
\* first exception ends it.
RECURSIVE SubstitutionCipher_encode_ords(_, _, _, _)
SubstitutionCipher_encode_ords(self, plain_ords, i, acc) ==
    IF i > Len(plain_ords) THEN [self |-> self, out |-> Ok(acc)]
    ELSE LET r == encode_ord(self, plain_ords[i])
         IN  IF r.out.exc # "" THEN r
             ELSE SubstitutionCipher_encode_ords(r.self, plain_ords, i + 1,
                                                 Append(acc, r.out.val))

(***************************************************************************)
(* The generator ciphers.  A generator function runs as its result is      *)
(* consumed: what it yields before its first exception is val, the         *)
(* exception is pend.                                                      *)
(***************************************************************************)
YieldOutcome(rs) ==
    LET bad == {i \in DOMAIN rs : rs[i].exc # ""}
    IN  IF bad = {} THEN Ok([i \in DOMAIN rs |-> rs[i].val])
        ELSE Yield([i \in 1..(SetMin(bad) - 1) |-> rs[i].val], rs[SetMin(bad)].exc)

\* RotatingCipher._encode_ord(plain, i), i counting from 0.
RotatingCipher_encode_ord(self, plain, i) ==
    LET alpha_size == Len(self.alphabet)
    IN  IF alpha_size = 0 THEN Raise("ZeroDivisionError")
        ELSE Ok(IntVal(PyMod(plain.v + self.init_rot_by + self.increment * i,
                             alpha_size)))

\* IndexedSubstitutionCipher._encode_ords, for a RotatingCipher.
IndexedSubstitutionCipher_encode_ords(self, plain_ords) ==
    YieldOutcome([k \in DOMAIN plain_ords |->
                    RotatingCipher_encode_ord(self, plain_ords[k], k - 1)])

\* The while loop of ColumnarCipher._encode_ords (width >= 1): the string
\* 'X' is appended until the length is a multiple of the width.
Columnar_pad(text, width) ==
    text \o [k \in 1..PyMod(width - PyMod(Len(text), width), width) |-> StrVal(CodeX)]

\* Mutation: the column is found by dividing by the width, not the height.
Columnar_element_DivWidth(self, text, height, i) ==
    LET col == list_index(self.column_order, i \div self.width)
    IN  IF col.exc # "" THEN col
        ELSE list_index(text, PyMod(i * self.width, Len(text)) + col.val)

\* The element ColumnarCipher._encode_ords yields for i.
Columnar_element(self, text, height, i) ==
    LET col == list_index(self.column_order, i \div height)
    IN  IF col.exc # "" THEN col
        ELSE list_index(text, PyMod(i * self.width, Len(text)) + col.val)

ColumnarCipher_encode_ords(self, plain_ords) ==
    IF self.width = 0 THEN Yield(<<>>, "ZeroDivisionError")
    ELSE LET text == Columnar_pad(plain_ords, self.width)
             height == Len(text) \div self.width
         IN  YieldOutcome([k \in DOMAIN text |->
                             Columnar_element(self, text, height, k - 1)])

(***************************************************************************)
(* Smasher.                                                                *)
(***************************************************************************)
\* str.isspace and membership in string.punctuation, for ASCII.
isspace(c) == c = 32 \/ (9 <= c /\ c <= 13)
punctuation(c) ==
    \/ 33 <= c /\ c <= 47
    \/ 58 <= c /\ c <= 64
    \/ 91 <= c /\ c <= 96
    \/ 123 <= c /\ c <= 126
upper(c) == IF 97 <= c /\ c <= 122 THEN c - 32 ELSE c

InAlphabet(alphabet, c) == \E i \in DOMAIN alphabet : alphabet[i] = c

RECURSIVE SelectKept(_)
SelectKept(text) ==
    IF text = <<>> THEN <<>>
    ELSE IF isspace(Head(text).v) \/ punctuation(Head(text).v)
         THEN SelectKept(Tail(text))
         ELSE <<Head(text)>> \o SelectKept(Tail(text))

\* Smasher.encode_ords: no reset, no ords; the argument is a string.
Smasher_encode_ords(self, string) ==
    IF \E i \in DOMAIN string.val : ~string.val[i].str
    THEN Raise("AttributeError")
    ELSE IF string.pend # "" THEN Raise(string.pend)
    ELSE LET kept == SelectKept(string.val)
             smashed == [i \in DOMAIN kept |->
                           IF InAlphabet(self.alphabet, upper(kept[i].v))
                           THEN StrVal(upper(kept[i].v))
                           ELSE StrVal(CodeX)]
         IN  MapOutcome([i \in DOMAIN smashed |->
                           Cipher_ord(self.alphabet, smashed[i])], "")

(***************************************************************************)
(* encode_ords and encode, on the heap of objects.  The outcome is         *)
(* [heap, out]: the heap after the call and what the call returned.        *)
(***************************************************************************)
RECURSIVE Cipher_encode_ords(_, _, _)
RECURSIVE ComposedCipher_encode_ords(_, _, _, _)

\* ComposedCipher._encode_ords from the k-th child on: each child's
\* encode_ords is handed what the child before returned.
ComposedCipher_encode_ords(h, id, k, ords) ==
    IF k > Len(h[id].children) THEN [heap |-> h, out |-> ords]
    ELSE LET r == Cipher_encode_ords(h, h[id].children[k], ords)
         IN  IF r.out.exc # "" THEN r
             ELSE ComposedCipher_encode_ords(r.heap, id, k + 1, r.out)

\* The class's _encode_ords on the list self.ords returned.
Dispatch_encode_ords(h, id, plainords) ==
    LET self == h[id]
    IN  IF IsSubstitution(self)
        THEN LET r == SubstitutionCipher_encode_ords(self, plainords, 1, <<>>)
             IN  [heap |-> [h EXCEPT ![id] = r.self], out |-> r.out]
        ELSE IF self.cls = "RotatingCipher"
        THEN [heap |-> h, out |-> IndexedSubstitutionCipher_encode_ords(self, plainords)]
        ELSE IF self.cls = "ColumnarCipher"
        THEN [heap |-> h, out |-> ColumnarCipher_encode_ords(self, plainords)]
        ELSE IF self.cls = "ComposedCipher"
        THEN ComposedCipher_encode_ords(h, id, 1, Ok(plainords))
        ELSE [heap |-> h, out |-> Ok(plainords)]

\* Cipher.encode_ords: reset, then _encode_ords(self.ords(text));
\* Smasher overrides it.
Cipher_encode_ords(h, id, text) ==
    IF ~IsCipherInstance(h[id]) THEN [heap |-> h, out |-> Raise("AttributeError")]
    ELSE IF h[id].cls = "Smasher"
    THEN [heap |-> h, out |-> Smasher_encode_ords(h[id], text)]
    ELSE LET h1 == [h EXCEPT ![id] = Cipher_reset(h[id])]
             o == Cipher_ords(h[id].alphabet, text)
         IN  IF o.exc # "" THEN [heap |-> h1, out |-> o]
             ELSE Dispatch_encode_ords(h1, id, o.val)

\* Cipher.encode: chrs(encode_ords(text)).
Cipher_encode(h, id, text) ==
    LET r == Cipher_encode_ords(h, id, text)
    IN  IF r.out.exc # "" THEN r
        ELSE [heap |-> r.heap, out |-> Cipher_chrs(h[id].alphabet, r.out)]

\* A Python string as the iterable of its characters, a list of indices.
Str(codes) == Ok([i \in DOMAIN codes |-> StrVal(codes[i])])
Ints(is) == Ok([i \in DOMAIN is |-> IntVal(is[i])])

\* The sequences over S of length 0..n.
SeqsUpTo(S, n) == UNION {[1..k -> S] : k \in 0..n}

Last(s) == s[Len(s)]

\* 'A', 'AB', 'ABC', ...: the first n letters.
Letters(n) == [i \in 1..n |-> DefaultAlphabet[i]]
LetterCodes(n) == {DefaultAlphabet[i] : i \in 1..n}

(***************************************************************************)
(* SpecCodec: one Cipher; chr, chrs and ords are called on it.             *)
(***************************************************************************)
CodecOffsets == -MaxOffset..MaxOffset

InitCodec ==
    /\ \E n \in 0..MaxAlpha : heap = <<Cipher_init("Cipher", Letters(n), 0)>>
    /\ plaintext = Ok(<<>>)
    /\ result = Ok(<<>>)
    /\ calls = <<>>

Chr(offset) ==
    /\ calls = <<>>
    /\ plaintext' = Ints(<<offset>>)
    /\ result' = Cipher_chr(heap[1].alphabet, IntVal(offset))
    /\ calls' = <<"chr">>
    /\ UNCHANGED heap

Chrs(offsets) ==
    /\ calls = <<>>
    /\ plaintext' = Ints(offsets)
    /\ result' = Cipher_chrs(heap[1].alphabet, Ints(offsets))
    /\ calls' = <<"chrs">>
    /\ UNCHANGED heap

Ords(offsets) ==
    /\ calls = <<>>
    /\ plaintext' = Ints(offsets)
    /\ result' = Cipher_ords(heap[1].alphabet, Ints(offsets))
    /\ calls' = <<"ords">>
    /\ UNCHANGED heap

NextCodec ==
    \/ \E offset \in CodecOffsets : Chr(offset)
    \/ \E offsets \in SeqsUpTo(CodecOffsets, 2) : Chrs(offsets)
    \/ \E offsets \in SeqsUpTo(CodecOffsets, 2) : Ords(offsets)

SpecCodec == InitCodec /\ [][NextCodec]_vars

(***************************************************************************)
(* SpecCaesar: CaesarCipher(rot_by=k), (rot_by=N-k), (rot_by=-k),          *)
(* (rot_by=0) and (rot_by=N) over one alphabet of size N; a text over the  *)
(* alphabet is encoded, and the result encoded again.                      *)
(***************************************************************************)
InitCaesar ==
    /\ \E n \in 1..MaxAlpha, k \in -MaxRot..MaxRot :
         heap = <<CaesarCipher(Letters(n), 0, k), CaesarCipher(Letters(n), 0, n - k),
                  CaesarCipher(Letters(n), 0, -k), CaesarCipher(Letters(n), 0, 0),
                  CaesarCipher(Letters(n), 0, n)>>
    /\ plaintext \in {Str(t) : t \in SeqsUpTo(LetterCodes(MaxAlpha), MaxLen)}
    /\ \A i \in DOMAIN plaintext.val :
         InAlphabet(heap[1].alphabet, plaintext.val[i].v)
    /\ result = plaintext
    /\ calls = <<>>

\* cipher.encode(text), text the plaintext or the result of the call before.
CaesarEncode(id) ==
    /\ Len(calls) < 2
    /\ result.exc = ""
    /\ LET r == Cipher_encode(heap, id, result)
       IN  /\ heap' = r.heap
           /\ result' = r.out
    /\ calls' = Append(calls, id)
    /\ UNCHANGED plaintext

NextCaesar == \E id \in 1..5 : CaesarEncode(id)

SpecCaesar == InitCaesar /\ [][NextCaesar]_vars

\* C7: chr(offset) returns alphabet[offset] for an offset in [0, N) and
\* fails with IndexError for every other integer, the negative ones
\* included; ords hands a sequence of integers back unchanged.
C7_ChrRejectsOutsideRange ==
    /\ calls = <<"chr">> =>
         LET offset == plaintext.val[1].v
             alphabet == heap[1].alphabet
         IN  IF 0 <= offset /\ offset < Len(alphabet)
             THEN result = Ok(StrVal(alphabet[offset + 1]))
             ELSE result.exc = "IndexError"
    /\ calls = <<"ords">> => result = plaintext

\* C2: encoding with rot_by = N-k (or -k) and then with rot_by = k gives
\* the text back, and so does one encoding with rot_by = 0 or rot_by = N.
C2_CaesarRoundTrip ==
    LET N == Len(heap[1].alphabet)
    IN  /\ (Len(calls) = 2
            /\ heap[calls[1]].rot_by \in {N - heap[calls[2]].rot_by,
                                          -heap[calls[2]].rot_by})
           => result = plaintext
        /\ (Len(calls) = 1 /\ heap[calls[1]].rot_by \in {0, N})
           => result = plaintext

\* A text of two different letters went through rot_by = N-k and then
\* rot_by = k, for a k beyond the alphabet size, and came back.
C2_Witness ==
    /\ calls = <<2, 1>>
    /\ heap[1].rot_by > Len(heap[1].alphabet)
    /\ Len(plaintext.val) = 2
    /\ plaintext.val[1] # plaintext.val[2]
    /\ result = plaintext

(***************************************************************************)
(* SpecInstance: one cipher that draws on its generator or on a feedback   *)
(* value; encode and encode_ords are called on it, again and again.        *)
(***************************************************************************)
InstanceClasses ==
    {"SimpleFeedbackCipher", "SquareFeedbackCipher", "SkewedOneTimePadCipher",
     "MapSubstitutionCipher"}
InstanceSeeds == {0, 1}
InstanceParams == {1, 2}    \* init_rot_by, or skew
InstanceLetters == {65, 66, 90}     \* 'A', 'B', and 'Z', which is in no alphabet drawn
InstanceIndices == {0, 1, 5}        \* 5 is beyond every alphabet drawn

\* The constructor call that builds the instance.
Construct(cls, alphabet, seed, param) ==
    CASE cls = "SimpleFeedbackCipher" -> SimpleFeedbackCipher(alphabet, seed, param)
      [] cls = "SquareFeedbackCipher" -> SquareFeedbackCipher(alphabet, seed, param)
      [] cls = "SkewedOneTimePadCipher" -> SkewedOneTimePadCipher(alphabet, seed, param)
      [] cls = "MapSubstitutionCipher" -> MapSubstitutionCipher(alphabet, seed)

\* A new instance built with the seed and the parameters self was built with.
Fresh(self) ==
    Construct(self.cls, self.alphabet, self.seed,
              IF self.cls = "SkewedOneTimePadCipher" THEN self.skew
              ELSE self.init_rot_by)

InitInstance ==
    /\ \E cls \in InstanceClasses, n \in 2..MaxAlpha, seed \in InstanceSeeds,
          param \in InstanceParams :
         /\ cls = "MapSubstitutionCipher" => param = 1
         /\ heap = <<Construct(cls, Letters(n), seed, param)>>
    /\ plaintext = Ok(<<>>)
    /\ result = Ok(<<>>)
    /\ calls = <<>>

Encode(text) ==
    /\ Len(calls) < MaxCalls
    /\ LET r == Cipher_encode(heap, 1, Str(text))
       IN  /\ heap' = r.heap
           /\ result' = r.out
    /\ plaintext' = Str(text)
    /\ calls' = Append(calls, "encode")

EncodeOrds(indices) ==
    /\ Len(calls) < MaxCalls
    /\ LET r == Cipher_encode_ords(heap, 1, Ints(indices))
       IN  /\ heap' = r.heap
           /\ result' = r.out
    /\ plaintext' = Ints(indices)
    /\ calls' = Append(calls, "encode_ords")

NextInstance ==
    \/ \E text \in SeqsUpTo(InstanceLetters, MaxLen) : Encode(text)
    \/ \E indices \in SeqsUpTo(InstanceIndices, MaxLen) : EncodeOrds(indices)

SpecInstance == InitInstance /\ [][NextInstance]_vars

\* C1: whatever calls came before, encode (and encode_ords) returns what
\* the first such call on a new instance with the same seed and parameters
\* returns.
C1_EncodeAsOnFreshInstance ==
    calls # <<>> =>
        result = IF Last(calls) = "encode"
                 THEN Cipher_encode(<<Fresh(heap[1])>>, 1, plaintext).out
                 ELSE Cipher_encode_ords(<<Fresh(heap[1])>>, 1, plaintext).out

\* A second call on an instance whose generator or feedback value the call
\* before had moved away from its initial value.
C1_Witness ==
    /\ Len(calls) = 2
    /\ heap[1].cls = "SkewedOneTimePadCipher"
    /\ result.exc = ""
    /\ Len(result.val) = 2
    /\ heap[1].random # Fresh(heap[1]).random

ColumnOrders(w) ==
    {o \in [1..w -> 0..(w - 1)] : \A c, d \in 1..w : o[c] = o[d] => c = d}

InversePermutation(o) ==
    [c \in DOMAIN o |-> (CHOOSE d \in DOMAIN o : o[d] = c - 1) - 1]

\* The texts: n consecutive letters of the alphabet, from 'A' or from 'W'
\* on (the latter holds 'X', the filler), and n times the letter 'A'.
ColumnarTexts ==
    UNION {{[i \in 1..n |-> DefaultAlphabet[i]],
            [i \in 1..n |-> DefaultAlphabet[PyMod(21 + i, 26) + 1]],
            [i \in 1..n |-> DefaultAlphabet[1]]} : n \in 0..(MaxWidth * MaxWidth)}

InitColumnar ==
    /\ \E w \in 1..MaxWidth : \E o \in ColumnOrders(w) :
         heap = <<ColumnarCipher(DefaultAlphabet, 0, w, o),
                  ColumnarCipher(DefaultAlphabet, 0, w, InversePermutation(o))>>
    /\ plaintext \in {Str(t) : t \in ColumnarTexts}
    /\ result = plaintext
    /\ calls = <<>>

\* cipher.encode(text), text the plaintext or the result of the call before.
ColumnarEncode(id) ==
    /\ Len(calls) < 2
    /\ result.exc = ""
    /\ LET r == Cipher_encode(heap, id, result)
       IN  /\ heap' = r.heap
           /\ result' = r.out
    /\ calls' = Append(calls, id)
    /\ UNCHANGED plaintext

NextColumnar == \E id \in 1..2 : ColumnarEncode(id)

SpecColumnar == InitColumnar /\ [][NextColumnar]_vars

(***************************************************************************)
(* SpecSmasher: one Smasher; encode is called on a string.                 *)
(***************************************************************************)
LowercaseAlphabet == [i \in 1..26 |-> 96 + i]

SmasherAlphabets ==
    {DefaultAlphabet, LowercaseAlphabet, Letters(MaxAlpha), [i \in 1..3 |-> 87 + i]}

\* 'A', 'a', 'X', 'x', 'd', '9', ' ', '#', '.' and a newline.
SmasherChars == {65, 97, 88, 120, 100, 57, 32, 35, 46, 10}

InitSmasher ==
    /\ \E alphabet \in SmasherAlphabets : heap = <<Smasher(alphabet, 0)>>
    /\ plaintext = Ok(<<>>)
    /\ result = Ok(<<>>)
    /\ calls = <<>>

Smash(text) ==
    /\ calls = <<>>
    /\ LET r == Cipher_encode(heap, 1, Str(text))
       IN  /\ heap' = r.heap
           /\ result' = r.out
    /\ plaintext' = Str(text)
    /\ calls' = <<"encode">>

NextSmasher == \E text \in SeqsUpTo(SmasherChars, MaxLen) : Smash(text)

SpecSmasher == InitSmasher /\ [][NextSmasher]_vars

(***************************************************************************)
(* SpecGCD: GCDCipher._encode_ord(plain_ord), one iteration of its while   *)
(* loop at a time.  result holds the locals a and b, and the pair at the   *)
(* return; the values randrange returns are the environment's choice.      *)
(***************************************************************************)
\* fractions.gcd: while b: a, b = b, a % b; return a.
RECURSIVE gcd(_, _)
gcd(a, b) == IF b = 0 THEN a ELSE gcd(b, PyMod(a, b))

RandrangeLimit == 1000

InitGCD ==
    /\ heap = <<Cipher_init("GCDCipher", DefaultAlphabet, 0)>>
    /\ plaintext = Ok(<<>>)
    /\ result = Ok(<<>>)
    /\ calls = <<>>

\* divisor = plain_ord + 1; a = 2; b = 2.
GCD_encode_ord(plain_ord) ==
    /\ calls = <<>>
    /\ plaintext' = Ints(<<plain_ord>>)
    /\ result' = Ints(<<2, 2>>)
    /\ calls' = <<"while">>
    /\ UNCHANGED heap

\* The loop body: a and b are drawn again.
GCD_Draw(a, b) ==
    /\ calls = <<"while">>
    /\ gcd(result.val[1].v, result.val[2].v) > 1
    /\ a < RandrangeLimit \div (plaintext.val[1].v + 1)
    /\ b < RandrangeLimit \div (plaintext.val[1].v + 1)
    /\ result' = Ints(<<a, b>>)
    /\ UNCHANGED <<heap, plaintext, calls>>

\* The loop ends: return (a * divisor, b * divisor).
GCD_Return ==
    /\ calls = <<"while">>
    /\ ~(gcd(result.val[1].v, result.val[2].v) > 1)
    /\ LET divisor == plaintext.val[1].v + 1
       IN  result' = Ints(<<result.val[1].v * divisor, result.val[2].v * divisor>>)
    /\ calls' = <<"while", "return">>
    /\ UNCHANGED <<heap, plaintext>>

NextGCD ==
    \/ \E plain_ord \in 0..(Len(heap[1].alphabet) - 1) : GCD_encode_ord(plain_ord)
    \/ \E a, b \in 0..(MaxDraw - 1) : GCD_Draw(a, b)
    \/ GCD_Return

SpecGCD == InitGCD /\ [][NextGCD]_vars

\* C5: for every width, column order and text, encode succeeds and returns
\* the text padded with the filler to a multiple of the width, permuted:
\* position c*height + r holds the padded text's symbol at row r, column
\* column_order[c].
C5_ColumnarPermutesPadded ==
    Len(calls) = 1 =>
        LET self == heap[calls[1]]
            w == self.width
            padded == plaintext.val \o
                      [k \in 1..((w - (Len(plaintext.val) % w)) % w) |-> StrVal(CodeX)]
            height == Len(padded) \div w
        IN  /\ result.exc = "" /\ result.pend = ""
            /\ Len(result.val) = Len(padded)
            /\ \A c \in 0..(w - 1), r \in 0..(height - 1) :
                 result.val[c * height + r + 1] =
                    padded[r * w + self.column_order[c + 1] + 1]

\* C6 as claimed: a text whose length is a multiple of the width, encoded
\* with column order o and then with the inverse of o, is the text again.
C6_RoundTripAnyHeight ==
    (calls = <<1, 2>> /\ Len(plaintext.val) % heap[1].width = 0)
        => result = plaintext

\* C6 amended: the round trip holds when the text has at most one row,
\* when the width is 1, and when the height equals the width and the
\* column order is the identity.
C6_RoundTripAmended ==
    LET w == heap[1].width
        height == Len(plaintext.val) \div w
    IN  (/\ calls = <<1, 2>>
         /\ Len(plaintext.val) % w = 0
         /\ \/ height <= 1
            \/ w = 1
            \/ height = w /\ heap[1].column_order = [c \in 1..w |-> c - 1])
            => result = plaintext

\* Nine different letters went twice through the width 3 cipher and came
\* back, having been moved by the first pass.
C6_Witness ==
    /\ calls = <<1, 2>>
    /\ heap[1].width = 3
    /\ heap[1].column_order = <<0, 1, 2>>
    /\ Len(plaintext.val) = 9
    /\ plaintext.val[1] # plaintext.val[2]
    /\ result = plaintext
    /\ Cipher_encode(heap, 1, plaintext).out # plaintext

\* C8: whatever the alphabet and the string, Smasher.encode raises nothing
\* and every symbol it returns is in the alphabet; whitespace and
\* punctuation are dropped.
C8_SmasherNeverRaises ==
    calls = <<"encode">> =>
        /\ result.exc = ""
        /\ \A i \in DOMAIN result.val :
             InAlphabet(heap[1].alphabet, result.val[i].v)
        /\ Len(result.val) = Len(SelectKept(plaintext.val))

\* C10: the pair _encode_ord returns has greatest common divisor
\* plain_ord + 1.
C10_PairHasGcdOrdPlusOne ==
    (calls # <<>> /\ Last(calls) = "return") =>
        gcd(result.val[1].v, result.val[2].v) = plaintext.val[1].v + 1

(***************************************************************************)
(* SpecCompose: ciphers A, B and C (C may be A itself), the compositions   *)
(* ((A, B), C) and (A, (B, C)) built with ComposedCipher(children=...),    *)
(* and a value that is no cipher.  The two compositions encode a text;     *)
(* A | other is evaluated.                                                 *)
(***************************************************************************)
\* isinstance(Cipher, other), as written in __or__: other must be a class,
\* and the class Cipher is an instance of object (and of type) only.
isinstance_Cipher(other) ==
    IF ~IsClass(other) THEN Raise("TypeError")
    ELSE Ok(other.cls = "class object")

\* Cipher.__or__(self, other), self and other ids of the heap.  The new
\* ComposedCipher goes to the end of the heap and its id is returned.
Cipher_or(h, self, other) ==
    LET isinst == isinstance_Cipher(h[other])
    IN  IF isinst.exc # "" THEN [heap |-> h, out |-> isinst]
        ELSE IF ~isinst.val THEN [heap |-> h, out |-> Raise("TypeError")]
        ELSE [heap |-> Append(h, ComposedCipher(DefaultAlphabet, 0, <<self, other>>)),
              out |-> Ints(<<Len(h) + 1>>)]

ComposePool ==
    {Cipher_init("Cipher", DefaultAlphabet, 0),
     CaesarCipher(DefaultAlphabet, 0, 1),
     CaesarCipher(<<88, 89, 90>>, 0, 0),
     SimpleFeedbackCipher(DefaultAlphabet, 0, 1),
     SkewedOneTimePadCipher(DefaultAlphabet, 0, 1),
     RotatingCipher(DefaultAlphabet, 0, 1, 1),
     ColumnarCipher(DefaultAlphabet, 0, 2, <<1, 0>>)}

\* Heap ids: 1..3 are A, B, C; 4 and 5 are (A, B) and ((A, B), C);
\* 6 and 7 are (B, C) and (A, (B, C)); 8 is the value that is no cipher.
LeftId == 5
RightId == 7
OtherId == 8

InitCompose ==
    /\ \E A \in ComposePool, B \in ComposePool, C \in ComposePool,
          c \in {1, 3}, kind \in NonCipherKinds :
         /\ c = 1 => C = A
         /\ heap = <<A, B, C,
                     ComposedCipher(DefaultAlphabet, 0, <<1, 2>>),
                     ComposedCipher(DefaultAlphabet, 0, <<4, c>>),
                     ComposedCipher(DefaultAlphabet, 0, <<2, c>>),
                     ComposedCipher(DefaultAlphabet, 0, <<1, 6>>),
                     NonCipher(kind)>>
    /\ plaintext \in {Str(t) : t \in SeqsUpTo({65, 66, 88}, MaxLen)}
    /\ result = Ok(<<>>)
    /\ calls = <<>>

\* composition.encode(plaintext), the composition ((A, B), C) or (A, (B, C)).
ComposedEncode(id) ==
    /\ Len(calls) < 2
    /\ \A k \in DOMAIN calls : calls[k].op = "encode"
    /\ LET r == Cipher_encode(heap, id, plaintext)
       IN  /\ heap' = r.heap
           /\ result' = r.out
           /\ calls' = Append(calls, [op |-> "encode", self |-> id, other |-> 0,
                                      out |-> r.out])
    /\ UNCHANGED plaintext

\* self | other.
Or(self, other) ==
    /\ calls = <<>>
    /\ LET r == Cipher_or(heap, self, other)
       IN  /\ heap' = r.heap
           /\ result' = r.out
           /\ calls' = <<[op |-> "or", self |-> self, other |-> other, out |-> r.out]>>
    /\ UNCHANGED plaintext

NextCompose ==
    \/ \E id \in {LeftId, RightId} : ComposedEncode(id)
    \/ \E self \in 1..3, other \in {1, 2, 3, OtherId} : Or(self, other)

SpecCompose == InitCompose /\ [][NextCompose]_vars

\* C3: the compositions ((A, B), C) and (A, (B, C)) encode a text to the
\* same result.
C3_CompositionAssociative ==
    (Len(calls) = 2 /\ calls[1].op = "encode")
        => calls[1].out = calls[2].out

\* C4: A | B succeeds when B is a cipher, and the pipeline it returns
\* encodes as B.encode_ords(A.encode_ords(text)); it fails with a
\* TypeError when B is no cipher.
C4_PipeComposesCiphers ==
    (Len(calls) = 1 /\ calls[1].op = "or") =>
        LET A == calls[1].self
            B == calls[1].other
        IN  IF IsCipherInstance(heap[B])
            THEN /\ result.exc = ""
                 /\ LET ra == Cipher_encode_ords(heap, A, plaintext)
                        rb == Cipher_encode_ords(ra.heap, B, ra.out)
                    IN  Cipher_encode_ords(heap, result.val[1].v, plaintext).out
                            = rb.out
            ELSE result.exc = "TypeError"

====
